---- MODULE Spec2Model ----
(***************************************************************************)
(* State-machine model of the CDSBack REST back ends:                      *)
(*   - the SQLite-backed Express server (users and tasks tables), and      *)
(*   - the DynamoDB-backed Lambda auth handlers (register, login,          *)
(*     getProfile, updateProfile).                                         *)
(* A request handler is split at the points where it waits for the store:  *)
(* one action per statement executed against the store, together with the *)
(* code that runs in its callback up to the next statement or response.    *)
(***************************************************************************)
EXTENDS Integers, Sequences, FiniteSets, Bags, TLC

(* ------------------------------ bounds -------------------------------- *)
MaxInflight == 2
MaxUsers == 2
MaxTasks == 2
MaxClock == 1

(* ------------------------- values of the model ------------------------ *)
\* A string field that is undefined or "" is falsy in JavaScript; both are "".
Falsy(v) == v = ""
NULL == "NULL"

Emails == {"", "a@x.io", "b@x.io"}
\* Passwords are sequences of characters; <<>> is the absent or empty one.
PwGood == <<1, 2, 3, 4, 5, 6>>
PwOther == <<1, 2, 3, 4, 5, 7>>
PwShort == <<1, 2, 3>>
Passwords == {<<>>, PwGood, PwOther, PwShort}
Salts == {"s1"}

(* ------------------------------ bcryptjs ------------------------------ *)
saltRounds == 12

\* bcrypt.hash(password, saltRounds) with the salt the library generated.
BcryptHash(password, salt) ==
    [rounds |-> saltRounds, salt |-> salt, digest |-> <<salt, password>>]

\* bcrypt.compare(password, hash): re-derives with the salt kept in the hash.
BcryptCompare(password, hash) ==
    BcryptHash(password, hash.salt) = hash

(* ------------------------------ helpers ------------------------------- *)
\* const { passwordHash, ...userResponse } = user
Without(rec, field) == [f \in (DOMAIN rec) \ {field} |-> rec[f]]

\* { ...rec, name: value }
With(rec, name, value) ==
    [f \in (DOMAIN rec) \cup {name} |-> IF f = name THEN value ELSE rec[f]]

\* `user-${id}`
Uid(id) == <<"user-", id>>

VARIABLES
    users,      \* SQLite table users: set of rows
    userSeq,    \* AUTOINCREMENT sequence of users
    tasks,      \* SQLite table tasks: set of rows
    taskSeq,    \* AUTOINCREMENT sequence of tasks
    now,        \* CURRENT_TIMESTAMP of the SQLite server
    inflight,   \* SQLite server: bag of requests waiting for a statement
    crashed,    \* SQLite server: the process died of an uncaught exception
    items,      \* DynamoDB users table: set of items, keyed by userId
    uuidSeq,    \* number of identifiers uuidv4() has handed out
    clock,      \* Date.now() of the Lambda handlers, in hours
    lambdas,    \* Lambda handlers: bag of invocations waiting for DynamoDB
    held,       \* session tokens the clients have received
    resp        \* the response sent by the last step, NoResp if it sent none

sqlVars == <<users, userSeq, tasks, taskSeq, now, inflight, crashed>>
dynVars == <<items, uuidSeq, clock, lambdas, held>>
vars == <<users, userSeq, tasks, taskSeq, now, inflight, crashed,
          items, uuidSeq, clock, lambdas, held, resp>>

NoReq == [ops |-> <<>>]
NoResp == [ep |-> "none", status |-> 0, body |-> [success |-> FALSE], req |-> NoReq]

\* The request as received: no statement has run yet.
Fresh(in) == With(in, "ops", <<>>)
\* The request after one more statement.
Ran(r, op) == [r EXCEPT !.ops = Append(@, op)]

\* res.status(status).json(body), or the value a Lambda handler returns.
\* req is the request it answers: what the client sent, the handler's locals
\* and ops, the statements the handler has run against the store.
Respond(ep, status, body, req) ==
    resp' = [ep |-> ep, status |-> status, body |-> body, req |-> req]

Quiet == resp' = NoResp

Waiting(ep, pc) == {r \in BagToSet(inflight) : r.ep = ep /\ r.pc = pc}
CanAccept == BagCardinality(inflight) < MaxInflight
Park(r) == inflight' = inflight (+) SetToBag({r})
Resume(r, r2) == inflight' = (inflight (-) SetToBag({r})) (+) SetToBag({r2})
Release(r) == inflight' = inflight (-) SetToBag({r})

(* ========================= SQLite server: users ======================= *)
\* The lookup with the wrong column in its WHERE clause.
UsersByEmailMutant(email) == {u \in users : u.firstName = email}

\* db.get('SELECT ... FROM users WHERE email = ?')
UsersByEmail(email) == {u \in users : u.email = email}

\* const userLanguage = selectedLanguage || language || 'en'
UserLanguage(selectedLanguage, language) ==
    IF ~Falsy(selectedLanguage) THEN selectedLanguage
    ELSE IF ~Falsy(language) THEN language ELSE "en"

MinPasswordLength == 6

MsgAllRequired == "All fields are required"
MsgPwMismatch == "Passwords do not match"
MsgPwShort == "Password must be at least 10 characters long"
MsgDuplicate == "This email is already registered. Please use a different email or try logging in."
MsgInternal == "Internal server error. Please try again."
MsgLoginRequired == "Email and password are required"
MsgInvalidLogin == "Invalid email or password"

Fail(msg) == [success |-> FALSE, error |-> msg]

\* The synchronous validation of POST /register; "" when the body passes.
RegisterValidation(in) ==
    IF Falsy(in.firstName) \/ Falsy(in.lastName) \/ Falsy(in.email)
          \/ in.password = <<>>
    THEN MsgAllRequired
    ELSE IF in.confirmPassword # <<>> /\ in.password # in.confirmPassword
    THEN MsgPwMismatch
    ELSE IF Len(in.password) < MinPasswordLength
    THEN MsgPwShort
    ELSE ""

John ==
    [firstName |-> "Ann", lastName |-> "Doe", email |-> "a@x.io",
     password |-> PwGood, confirmPassword |-> PwGood,
     selectedLanguage |-> "", language |-> ""]

\* Bodies that pass the validation, and John's body with one field changed.
RegisterInputs ==
    {[John EXCEPT !.email = e, !.password = pw, !.confirmPassword = pw] :
        e \in {"a@x.io", "b@x.io"}, pw \in {PwGood, PwOther}}
    \cup {[John EXCEPT !.confirmPassword = <<>>]}
    \cup {[John EXCEPT !.firstName = ""], [John EXCEPT !.lastName = ""],
          [John EXCEPT !.email = ""], [John EXCEPT !.password = <<>>],
          [John EXCEPT !.password = PwShort, !.confirmPassword = <<>>],
          [John EXCEPT !.password = PwShort, !.confirmPassword = PwShort],
          [John EXCEPT !.confirmPassword = PwOther],
          [John EXCEPT !.selectedLanguage = "es"],
          [John EXCEPT !.language = "es"],
          [John EXCEPT !.selectedLanguage = "es", !.language = "fr"]}

\* The registrations that have not run their INSERT yet.
RegistersInFlight ==
    LET regs == {r \in BagToSet(inflight) : r.ep = "POST /register"}
    IN BagCardinality([r \in regs |-> CopiesIn(r, inflight)])

\* POST /register up to the first statement (validation, then SELECT issued).
RegisterStart(in) ==
    /\ ~crashed
    /\ CanAccept
    /\ LET msg == RegisterValidation(in) IN
       IF msg # ""
       THEN /\ Respond("POST /register", 400, Fail(msg), Fresh(in))
            /\ UNCHANGED <<sqlVars, dynVars>>
       ELSE /\ userSeq + RegistersInFlight < MaxUsers
            /\ Park([ep |-> "POST /register", pc |-> "select",
                     firstName |-> in.firstName, lastName |-> in.lastName,
                     email |-> in.email, password |-> in.password,
                     userLanguage |-> UserLanguage(in.selectedLanguage, in.language),
                     known |-> (\E u \in users : u.email = in.email),
                     ops |-> <<>>])
            /\ Quiet
            /\ UNCHANGED <<users, userSeq, tasks, taskSeq, now, crashed, dynVars>>

\* The existence check made atomic with the insert: a registration that is
\* about to insert the same email counts as an existing user.
RegisterSelectMutant(r) ==
    /\ ~crashed
    /\ r \in Waiting("POST /register", "select")
    /\ IF \/ UsersByEmail(r.email) # {}
          \/ \E r2 \in Waiting("POST /register", "insert") : r2.email = r.email
       THEN /\ Respond("POST /register", 400, Fail(MsgDuplicate), Ran(r, "SELECT"))
            /\ Release(r)
       ELSE /\ \E salt \in Salts :
                 Resume(r, With([Ran(r, "SELECT") EXCEPT !.pc = "insert"], "passwordHash",
                                BcryptHash(r.password, salt)))
            /\ Quiet
    /\ UNCHANGED <<users, userSeq, tasks, taskSeq, now, crashed, dynVars>>

\* The existence check and, when no row came back, bcrypt.hash.
RegisterSelect(r) ==
    /\ ~crashed
    /\ r \in Waiting("POST /register", "select")
    /\ IF UsersByEmail(r.email) # {}
       THEN /\ Respond("POST /register", 400, Fail(MsgDuplicate), Ran(r, "SELECT"))
            /\ Release(r)
       ELSE /\ \E salt \in Salts :
                 Resume(r, With([Ran(r, "SELECT") EXCEPT !.pc = "insert"], "passwordHash",
                                BcryptHash(r.password, salt)))
            /\ Quiet
    /\ UNCHANGED <<users, userSeq, tasks, taskSeq, now, crashed, dynVars>>

\* email TEXT UNIQUE NOT NULL
UniqueEmailViolated(email) == \E u \in users : u.email = email

\* The user as the success response of POST /register shows it.
RegisterUserData(userId, r) ==
    [id |-> userId, firstName |-> r.firstName, lastName |-> r.lastName,
     email |-> r.email, preferredLanguage |-> r.userLanguage,
     uid |-> Uid(userId)]

\* The INSERT and the response built in its continuation.
RegisterInsert(r) ==
    /\ ~crashed
    /\ r \in Waiting("POST /register", "insert")
    /\ LET userId == userSeq + 1 IN
       IF UniqueEmailViolated(r.email)
       THEN /\ Respond("POST /register", 500, Fail(MsgInternal), Ran(r, "INSERT"))
            /\ UNCHANGED <<users, userSeq>>
       ELSE /\ users' = users \cup
                  {[id |-> userId, firstName |-> r.firstName,
                    lastName |-> r.lastName, email |-> r.email,
                    passwordHash |-> r.passwordHash,
                    preferredLanguage |-> r.userLanguage,
                    createdAt |-> now, updatedAt |-> now]}
            /\ userSeq' = userId
            /\ Respond("POST /register", 200,
                       [success |-> TRUE,
                        message |-> "Registration successful! User account created.",
                        user |-> RegisterUserData(userId, r)],
                       Ran(r, "INSERT"))
    /\ Release(r)
    /\ UNCHANGED <<tasks, taskSeq, now, crashed, dynVars>>

\* GET /users
GetUsers ==
    /\ ~crashed
    /\ Respond("GET /users", 200,
               [users |-> {[id |-> u.id, firstName |-> u.firstName,
                            lastName |-> u.lastName, email |-> u.email,
                            preferredLanguage |-> u.preferredLanguage,
                            createdAt |-> u.createdAt] : u \in users}],
               [ops |-> <<"SELECT">>])
    /\ UNCHANGED <<sqlVars, dynVars>>

LoginInputs == [email : Emails, password : Passwords]

\* POST /login up to the SELECT.
LoginStart(in) ==
    /\ ~crashed
    /\ CanAccept
    /\ IF Falsy(in.email) \/ in.password = <<>>
       THEN /\ Respond("POST /login", 400, Fail(MsgLoginRequired), Fresh(in))
            /\ UNCHANGED <<sqlVars, dynVars>>
       ELSE /\ Park([ep |-> "POST /login", pc |-> "select", email |-> in.email,
                     password |-> in.password, ops |-> <<>>])
            /\ Quiet
            /\ UNCHANGED <<users, userSeq, tasks, taskSeq, now, crashed, dynVars>>

\* The login response that spreads the whole row.
LoginBodyMutant(user) ==
    [success |-> TRUE, message |-> "Login successful!",
     user |-> With(user, "uid", Uid(user.id))]

\* Return success response (without password hash)
LoginBody(user) ==
    [success |-> TRUE, message |-> "Login successful!",
     user |-> With(Without(user, "passwordHash"), "uid", Uid(user.id))]

\* The login that tells a missing user from a wrong password.
LoginSelectMutant(r) ==
    /\ ~crashed
    /\ r \in Waiting("POST /login", "select")
    /\ LET found == UsersByEmail(r.email) IN
       IF found = {}
       THEN Respond("POST /login", 401, Fail("User not found"), Ran(r, "SELECT"))
       ELSE \E user \in found :
               IF ~BcryptCompare(r.password, user.passwordHash)
               THEN Respond("POST /login", 401, Fail(MsgInvalidLogin), Ran(r, "SELECT"))
               ELSE Respond("POST /login", 200, LoginBody(user), Ran(r, "SELECT"))
    /\ Release(r)
    /\ UNCHANGED <<users, userSeq, tasks, taskSeq, now, crashed, dynVars>>

\* The SELECT by email, bcrypt.compare and the response.
LoginSelect(r) ==
    /\ ~crashed
    /\ r \in Waiting("POST /login", "select")
    /\ LET found == UsersByEmail(r.email) IN
       IF found = {}
       THEN Respond("POST /login", 401, Fail(MsgInvalidLogin), Ran(r, "SELECT"))
       ELSE \E user \in found :
               IF ~BcryptCompare(r.password, user.passwordHash)
               THEN Respond("POST /login", 401, Fail(MsgInvalidLogin), Ran(r, "SELECT"))
               ELSE Respond("POST /login", 200, LoginBody(user), Ran(r, "SELECT"))
    /\ Release(r)
    /\ UNCHANGED <<users, userSeq, tasks, taskSeq, now, crashed, dynVars>>

(* ========================= SQLite server: tasks ======================= *)
Undefined == "<undefined>"

\* The connection is opened without PRAGMA foreign_keys = ON, and SQLite
\* leaves foreign-key enforcement off unless the connection turns it on.
ForeignKeysEnforced == FALSE

\* FOREIGN KEY (userId) REFERENCES users (id)
ForeignKeyViolated(userId) ==
    ForeignKeysEnforced /\ ~(\E u \in users : u.id = userId)

TasksOf(userId) == {t \in tasks : t.userId = userId}
TaskById(taskId) == {t \in tasks : t.id = taskId}

\* { ...row, completed: Boolean(row.completed) }
TaskJson(row) == [row EXCEPT !.completed = (row.completed # 0)]

RECURSIVE Perms(_)
Perms(S) ==
    IF S = {} THEN {<<>>}
    ELSE UNION {{<<x>> \o p : p \in Perms(S \ {x})} : x \in S}

\* ORDER BY createdAt DESC: rows with equal createdAt come in any order.
OrderByCreatedAtDesc(rows) ==
    {p \in Perms(rows) :
        \A i \in 1..(Len(p) - 1) : p[i].createdAt >= p[i + 1].createdAt}

UserIds == {0, 1, 2}
TaskIds == 1..(MaxTasks + 1)

\* GET /tasks/:userId
ListTasks(userId) ==
    /\ ~crashed
    /\ \E rows \in OrderByCreatedAtDesc(TasksOf(userId)) :
          Respond("GET /tasks/:userId", 200,
                  [success |-> TRUE,
                   tasks |-> [i \in 1..Len(rows) |-> TaskJson(rows[i])]],
                  [userId |-> userId, ops |-> <<"SELECT">>])
    /\ UNCHANGED <<sqlVars, dynVars>>

CreateInputs ==
    [userId : UserIds, text : {"", "t1"}, priority : {Undefined, "high"},
     dueDate : {Undefined, "d1"}]

\* The row INSERT INTO tasks (userId, text, priority, dueDate) adds at time t:
\* priority = 'medium' stands in for an undefined priority, an undefined
\* dueDate is bound as NULL, the other columns take their defaults.
NewTask(taskId, in, t) ==
    [id |-> taskId, userId |-> in.userId, text |-> in.text, completed |-> 0,
     priority |-> IF in.priority = Undefined THEN "medium" ELSE in.priority,
     dueDate |-> IF in.dueDate = Undefined THEN NULL ELSE in.dueDate,
     createdAt |-> t, updatedAt |-> t]

\* POST /tasks: validation and the INSERT.
CreateTask(in) ==
    /\ ~crashed
    /\ CanAccept
    /\ LET taskId == taskSeq + 1 IN
       IF in.userId = 0 \/ Falsy(in.text)
       THEN /\ Respond("POST /tasks", 400,
                       [success |-> FALSE, error |-> "userId and text are required"],
                       Fresh(in))
            /\ UNCHANGED <<sqlVars, dynVars>>
       ELSE IF ForeignKeyViolated(in.userId)
       THEN /\ Respond("POST /tasks", 500,
                       [success |-> FALSE, error |-> "Failed to create task"],
                       Ran(Fresh(in), "INSERT"))
            /\ UNCHANGED <<sqlVars, dynVars>>
       ELSE /\ taskSeq < MaxTasks
            /\ tasks' = tasks \cup {NewTask(taskId, in, now)}
            /\ taskSeq' = taskId
            /\ Park([ep |-> "POST /tasks", pc |-> "select", taskId |-> taskId,
                     ops |-> <<"INSERT">>])
            /\ Quiet
            /\ UNCHANGED <<users, userSeq, now, crashed, dynVars>>

\* The callback reads row.completed: with no row it throws outside any
\* handler, which ends the server process and every request it was serving.
Crash(ep) ==
    /\ crashed' = TRUE
    /\ inflight' = EmptyBag
    /\ resp' = [ep |-> ep, status |-> 0, body |-> [success |-> FALSE],
                req |-> NoReq]

\* The SELECT that returns the created or updated row, and the response.
ReturnRow(r, message) ==
    /\ IF TaskById(r.taskId) = {}
       THEN Crash(r.ep)
       ELSE /\ \E row \in TaskById(r.taskId) :
                 Respond(r.ep, 200,
                         [success |-> TRUE, message |-> message,
                          task |-> TaskJson(row)],
                         Ran(r, "SELECT"))
            /\ Release(r)
            /\ UNCHANGED crashed
    /\ UNCHANGED <<users, userSeq, tasks, taskSeq, now, dynVars>>

CreateSelect(r) ==
    /\ ~crashed
    /\ r \in Waiting("POST /tasks", "select")
    /\ ReturnRow(r, "Task created successfully")

TaskFields == {"completed", "text", "priority", "dueDate"}

\* A PUT body: the fields in has are supplied, the others are undefined.
UpdateInputs ==
    {b \in [has : SUBSET TaskFields, completed : BOOLEAN, text : {"t2", NULL},
            priority : {"high"}, dueDate : {"d1", NULL}] :
        /\ "completed" \notin b.has => b.completed = FALSE
        /\ "text" \notin b.has => b.text = NULL
        /\ "dueDate" \notin b.has => b.dueDate = NULL}

\* The UPDATE that writes dueDate whether or not the body has it.
UpdatedRowMutant(row, b) ==
    [row EXCEPT
        !.completed = IF "completed" \in b.has
                      THEN (IF b.completed THEN 1 ELSE 0) ELSE @,
        !.text = IF "text" \in b.has THEN b.text ELSE @,
        !.priority = IF "priority" \in b.has THEN b.priority ELSE @,
        !.dueDate = b.dueDate,
        !.updatedAt = now]

\* UPDATE tasks SET <the supplied fields>, updatedAt = CURRENT_TIMESTAMP
UpdatedRow(row, b) ==
    [row EXCEPT
        !.completed = IF "completed" \in b.has
                      THEN (IF b.completed THEN 1 ELSE 0) ELSE @,
        !.text = IF "text" \in b.has THEN b.text ELSE @,
        !.priority = IF "priority" \in b.has THEN b.priority ELSE @,
        !.dueDate = IF "dueDate" \in b.has THEN b.dueDate ELSE @,
        !.updatedAt = now]

\* text TEXT NOT NULL
NotNullViolated(row) == row.text = NULL

\* PUT /tasks/:taskId: the UPDATE and its callback.
UpdateTask(taskId, b) ==
    /\ ~crashed
    /\ CanAccept
    /\ LET matched == TaskById(taskId) IN
       IF \E row \in matched : NotNullViolated(UpdatedRow(row, b))
       THEN /\ Respond("PUT /tasks/:taskId", 500,
                       [success |-> FALSE, error |-> "Failed to update task"],
                       [taskId |-> taskId, ops |-> <<"UPDATE">>])
            /\ UNCHANGED <<sqlVars, dynVars>>
       ELSE IF matched = {}
       THEN /\ Respond("PUT /tasks/:taskId", 404,
                       [success |-> FALSE, error |-> "Task not found"],
                       [taskId |-> taskId, ops |-> <<"UPDATE">>])
            /\ UNCHANGED <<sqlVars, dynVars>>
       ELSE /\ tasks' = (tasks \ matched) \cup {UpdatedRow(row, b) : row \in matched}
            /\ Park([ep |-> "PUT /tasks/:taskId", pc |-> "select", taskId |-> taskId,
                     ops |-> <<"UPDATE">>])
            /\ Quiet
            /\ UNCHANGED <<users, userSeq, taskSeq, now, crashed, dynVars>>

UpdateSelect(r) ==
    /\ ~crashed
    /\ r \in Waiting("PUT /tasks/:taskId", "select")
    /\ ReturnRow(r, "Task updated successfully")

\* The DELETE that does not look at this.changes.
DeleteTaskMutant(taskId) ==
    /\ ~crashed
    /\ tasks' = tasks \ TaskById(taskId)
    /\ Respond("DELETE /tasks/:taskId", 200,
               [success |-> TRUE, message |-> "Task deleted successfully"],
               [taskId |-> taskId, ops |-> <<"DELETE">>])
    /\ UNCHANGED <<users, userSeq, taskSeq, now, inflight, crashed, dynVars>>

\* DELETE /tasks/:taskId
DeleteTask(taskId) ==
    /\ ~crashed
    /\ IF TaskById(taskId) = {}
       THEN /\ Respond("DELETE /tasks/:taskId", 404,
                       [success |-> FALSE, error |-> "Task not found"],
                       [taskId |-> taskId, ops |-> <<"DELETE">>])
            /\ UNCHANGED tasks
       ELSE /\ tasks' = tasks \ TaskById(taskId)
            /\ Respond("DELETE /tasks/:taskId", 200,
                       [success |-> TRUE, message |-> "Task deleted successfully"],
                       [taskId |-> taskId, ops |-> <<"DELETE">>])
    /\ UNCHANGED <<users, userSeq, taskSeq, now, inflight, crashed, dynVars>>

\* An SQL integer in a result row is <<n>>, an SQL NULL there is <<>>.
SqlInt(n) == <<n>>
SqlNull == <<>>

\* SUM(CASE WHEN <cond> THEN 1 ELSE 0 END): NULL over no rows.
\* <cond> is "completed = flag".
SumCase(rows, flag) ==
    IF rows = {} THEN SqlNull
    ELSE SqlInt(Cardinality({t \in rows : t.completed = flag}))

IsCompleted == 1
IsRemaining == 0

\* The single row the aggregate query returns.
StatsRow(userId) ==
    [total |-> SqlInt(Cardinality(TasksOf(userId))),
     completed |-> SumCase(TasksOf(userId), IsCompleted),
     remaining |-> SumCase(TasksOf(userId), IsRemaining)]

\* GET /tasks/:userId/stats: rows[0] is always there, so the zero-filled
\* fallback after || is never taken.
GetStats(userId) ==
    /\ ~crashed
    /\ Respond("GET /tasks/:userId/stats", 200, [success |-> TRUE, stats |-> StatsRow(userId)],
               [userId |-> userId, ops |-> <<"SELECT">>])
    /\ UNCHANGED <<sqlVars, dynVars>>

(* ======================= DynamoDB Lambda handlers ===================== *)
MaxItems == 2
MaxTokens == 1
MaxHours == 24
StepHours == 12

\* Joi.string().email()
WellFormed == {"a@x.io", "b@x.io"}
DynEmails == {"", "a@x.io", "nomail"}
Languages == {"en", "es", "fr"}

Invoked(ep, pc) == {r \in BagToSet(lambdas) : r.ep = ep /\ r.pc = pc}
CanInvoke == BagCardinality(lambdas) < MaxInflight
Await(r) == lambdas' = lambdas (+) SetToBag({r})
Continue(r, r2) == lambdas' = (lambdas (-) SetToBag({r})) (+) SetToBag({r2})
Return(r) == lambdas' = lambdas (-) SetToBag({r})

\* response(statusCode, { error: message })
Err(msg) == [error |-> msg]

(* ----------------------------- jsonwebtoken --------------------------- *)
TokenHours == 24

\* jwt.sign(payload, process.env.JWT_SECRET, { expiresIn: '24h' })
JwtSign(user, t) ==
    [userId |-> user.userId, email |-> user.email,
     firstName |-> user.firstName, lastName |-> user.lastName,
     iat |-> t, exp |-> t + TokenHours, sig |-> "JWT_SECRET"]

NoToken == [userId |-> 0, email |-> "", firstName |-> "", lastName |-> "",
            iat |-> 0, exp |-> 0, sig |-> "none"]
\* A token signed with another key, and a string that is no JWT at all.
Forged == [NoToken EXCEPT !.userId = 1, !.exp = TokenHours, !.sig = "other"]
Malformed == [NoToken EXCEPT !.sig = "malformed"]

\* jwt.verify(token, process.env.JWT_SECRET): "ok" or the name of the error
\* it throws. TokenExpiredError carries its own name.
JwtVerify(token, t) ==
    IF token.sig # "JWT_SECRET" THEN "JsonWebTokenError"
    ELSE IF t >= token.exp THEN "TokenExpiredError"
    ELSE "ok"

\* The clients keep what they were sent, as far as they have room.
Keep(token) ==
    held' = IF Cardinality(held) < MaxTokens THEN held \cup {token} ELSE held

(* ------------------------------- register ----------------------------- *)
\* registerSchema, error.details[0].message; "" when the body passes.
RegisterSchema(in) ==
    IF in.firstName = "" THEN "\"firstName\" is required"
    ELSE IF in.lastName = "" THEN "\"lastName\" is required"
    ELSE IF in.email = "" THEN "\"email\" is required"
    ELSE IF in.email \notin WellFormed THEN "\"email\" must be a valid email"
    ELSE IF in.password = <<>> THEN "\"password\" is required"
    ELSE IF Len(in.password) < 6
    THEN "\"password\" length must be at least 6 characters long"
    ELSE IF in.confirmPassword = <<>> THEN "\"confirmPassword\" is required"
    ELSE IF in.confirmPassword # in.password
    THEN "\"confirmPassword\" must be [ref:password]"
    ELSE IF in.preferredLanguage \notin Languages \cup {Undefined}
    THEN "\"preferredLanguage\" must be one of [en, es, fr]"
    ELSE ""

Jane ==
    [firstName |-> "Ann", lastName |-> "Doe", email |-> "a@x.io",
     password |-> PwGood, confirmPassword |-> PwGood,
     preferredLanguage |-> Undefined]

\* Bodies that pass the schema, and Jane's body with one field changed.
DynRegisterInputs ==
    {Jane, [Jane EXCEPT !.password = PwOther, !.confirmPassword = PwOther]}
    \cup {[Jane EXCEPT !.firstName = ""], [Jane EXCEPT !.lastName = ""],
          [Jane EXCEPT !.email = ""], [Jane EXCEPT !.email = "nomail"],
          [Jane EXCEPT !.password = <<>>],
          [Jane EXCEPT !.password = PwShort, !.confirmPassword = PwShort],
          [Jane EXCEPT !.confirmPassword = <<>>],
          [Jane EXCEPT !.confirmPassword = PwOther],
          [Jane EXCEPT !.preferredLanguage = "de"]}

\* dynamodb.query on EmailIndex
ItemsByEmail(email) == {u \in items : u.email = email}

\* The registrations that have not drawn their identifier yet.
DynRegistering ==
    LET regs == Invoked("register", "query")
    IN BagCardinality([r \in regs |-> CopiesIn(r, lambdas)])

\* register up to the query: JSON.parse and validation.
DynRegisterStart(in) ==
    /\ CanInvoke
    /\ LET msg == RegisterSchema(in) IN
       IF msg # ""
       THEN /\ Respond("register", 400, Err(msg), Fresh(in))
            /\ UNCHANGED lambdas
       ELSE /\ uuidSeq + DynRegistering < MaxItems
            /\ Await([ep |-> "register", pc |-> "query",
                      firstName |-> in.firstName, lastName |-> in.lastName,
                      email |-> in.email, password |-> in.password,
                      preferredLanguage |->
                          IF in.preferredLanguage = Undefined THEN "en"
                          ELSE in.preferredLanguage,
                      known |-> (\E u \in items : u.email = in.email),
                      ops |-> <<>>])
            /\ Quiet
    /\ UNCHANGED <<sqlVars, items, uuidSeq, clock, held>>

\* The query on EmailIndex; with no item, bcrypt.hash, uuidv4 and Date.now.
DynRegisterQuery(r) ==
    /\ r \in Invoked("register", "query")
    /\ IF ItemsByEmail(r.email) # {}
       THEN /\ Respond("register", 400, Err("User with this email already exists"),
                       Ran(r, "query"))
            /\ Return(r)
            /\ UNCHANGED uuidSeq
       ELSE /\ \E salt \in Salts :
                 Continue(r, [ep |-> "register", pc |-> "put",
                     user |-> [userId |-> uuidSeq + 1, email |-> r.email,
                               passwordHash |-> BcryptHash(r.password, salt),
                               firstName |-> r.firstName, lastName |-> r.lastName,
                               preferredLanguage |-> r.preferredLanguage,
                               isVerified |-> FALSE,
                               createdAt |-> clock, updatedAt |-> clock],
                     known |-> r.known, ops |-> <<"query">>])
            /\ uuidSeq' = uuidSeq + 1
            /\ Quiet
    /\ UNCHANGED <<sqlVars, items, clock, held>>

\* dynamodb.put replaces the item with the same key, and adds it otherwise.
DynPut(item) == {u \in items : u.userId # item.userId} \cup {item}

\* The put, the token and the 201 response.
DynRegisterPut(r) ==
    /\ r \in Invoked("register", "put")
    /\ items' = DynPut(r.user)
    /\ LET token == JwtSign(r.user, clock) IN
       /\ Respond("register", 201,
                  [message |-> "User registered successfully",
                   user |-> Without(r.user, "passwordHash"), token |-> token],
                  Ran(r, "put"))
       /\ Keep(token)
    /\ Return(r)
    /\ UNCHANGED <<sqlVars, uuidSeq, clock>>

(* -------------------------------- login ------------------------------- *)
\* loginSchema, error.details[0].message; "" when the body passes.
LoginSchema(in) ==
    IF in.email = "" THEN "\"email\" is required"
    ELSE IF in.email \notin WellFormed THEN "\"email\" must be a valid email"
    ELSE IF in.password = <<>> THEN "\"password\" is required"
    ELSE ""

DynLoginInputs == [email : DynEmails, password : {<<>>, PwGood, PwOther}]

DynLoginStart(in) ==
    /\ CanInvoke
    /\ LET msg == LoginSchema(in) IN
       IF msg # ""
       THEN /\ Respond("login", 400, Err(msg), Fresh(in))
            /\ UNCHANGED lambdas
       ELSE /\ Await([ep |-> "login", pc |-> "query", email |-> in.email,
                      password |-> in.password, ops |-> <<>>])
            /\ Quiet
    /\ UNCHANGED <<sqlVars, items, uuidSeq, clock, held>>

\* The query, result.Items[0] (the index keeps no order among the items of
\* one email), bcrypt.compare, the token and the response.
DynLoginQuery(r) ==
    /\ r \in Invoked("login", "query")
    /\ IF ItemsByEmail(r.email) = {}
       THEN /\ Respond("login", 401, Err("Invalid email or password"),
                       Ran(r, "query"))
            /\ UNCHANGED held
       ELSE \E user \in ItemsByEmail(r.email) :
               IF ~BcryptCompare(r.password, user.passwordHash)
               THEN /\ Respond("login", 401, Err("Invalid email or password"),
                               Ran(r, "query"))
                    /\ UNCHANGED held
               ELSE LET token == JwtSign(user, clock) IN
                    /\ Respond("login", 200,
                               [message |-> "Login successful",
                                user |-> Without(user, "passwordHash"),
                                token |-> token],
                               Ran(r, "query"))
                    /\ Keep(token)
    /\ Return(r)
    /\ UNCHANGED <<sqlVars, items, uuidSeq, clock>>

(* ------------------------------- profile ------------------------------ *)
\* What a client can put after "Bearer ": nothing, junk, or a token it holds.
Bearers == {NoToken, Forged, Malformed} \cup held

\* The catch block shared by getProfile and updateProfile.
CatchJwt(ep, name, req) ==
    IF name = "JsonWebTokenError"
    THEN Respond(ep, 401, Err("Invalid token"), req)
    ELSE Respond(ep, 500, Err("Internal server error"), req)

\* getProfile up to dynamodb.get.
GetProfileStart(token) ==
    /\ CanInvoke
    /\ IF token = NoToken
       THEN /\ Respond("getProfile", 401, Err("Access token required"),
                       [token |-> token, at |-> clock, ops |-> <<>>])
            /\ UNCHANGED lambdas
       ELSE IF JwtVerify(token, clock) # "ok"
       THEN /\ CatchJwt("getProfile", JwtVerify(token, clock),
                        [token |-> token, at |-> clock, ops |-> <<>>])
            /\ UNCHANGED lambdas
       ELSE /\ Await([ep |-> "getProfile", pc |-> "get", userId |-> token.userId,
                      token |-> token, at |-> clock, ops |-> <<>>])
            /\ Quiet
    /\ UNCHANGED <<sqlVars, items, uuidSeq, clock, held>>

ItemByKey(userId) == {u \in items : u.userId = userId}

GetProfileGet(r) ==
    /\ r \in Invoked("getProfile", "get")
    /\ IF ItemByKey(r.userId) = {}
       THEN Respond("getProfile", 404, Err("User not found"), Ran(r, "get"))
       ELSE \E item \in ItemByKey(r.userId) :
               Respond("getProfile", 200, [user |-> Without(item, "passwordHash")],
                       Ran(r, "get"))
    /\ Return(r)
    /\ UNCHANGED <<sqlVars, items, uuidSeq, clock, held>>

\* A PUT body of updateProfile: Undefined marks a field that is not sent;
\* extra is a key the schema does not know, "" when there is none.
ProfileInputs ==
    [firstName : {Undefined, "Bob"}, lastName : {Undefined},
     preferredLanguage : {Undefined, "de"}, extra : {"", "email"}]

\* The schema with unknown keys allowed.
UpdateSchemaMutant(in) ==
    IF in.preferredLanguage \notin Languages \cup {Undefined}
    THEN "\"preferredLanguage\" must be one of [en, es, fr]"
    ELSE ""

\* updateSchema, error.details[0].message; "" when the body passes.
UpdateSchema(in) ==
    IF in.preferredLanguage \notin Languages \cup {Undefined}
    THEN "\"preferredLanguage\" must be one of [en, es, fr]"
    ELSE IF in.extra # "" THEN "\"email\" is not allowed"
    ELSE ""

\* updateProfile up to dynamodb.update.
UpdateProfileStart(token, in) ==
    /\ CanInvoke
    /\ IF token = NoToken
       THEN /\ Respond("updateProfile", 401, Err("Access token required"),
                       [token |-> token, at |-> clock, ops |-> <<>>])
            /\ UNCHANGED lambdas
       ELSE IF JwtVerify(token, clock) # "ok"
       THEN /\ CatchJwt("updateProfile", JwtVerify(token, clock),
                        [token |-> token, at |-> clock, ops |-> <<>>])
            /\ UNCHANGED lambdas
       ELSE IF UpdateSchema(in) # ""
       THEN /\ Respond("updateProfile", 400, Err(UpdateSchema(in)),
                       [token |-> token, at |-> clock, ops |-> <<>>])
            /\ UNCHANGED lambdas
       ELSE /\ Await([ep |-> "updateProfile", pc |-> "update",
                      userId |-> token.userId, firstName |-> in.firstName,
                      lastName |-> in.lastName,
                      preferredLanguage |-> in.preferredLanguage,
                      updatedAt |-> clock, token |-> token, at |-> clock,
                      ops |-> <<>>])
            /\ Quiet
    /\ UNCHANGED <<sqlVars, items, uuidSeq, clock, held>>

\* SET <the supplied fields>, updatedAt = :updatedAt
SetAttributes(item, r) ==
    LET a == IF r.firstName # Undefined
             THEN With(item, "firstName", r.firstName) ELSE item
        b == IF r.lastName # Undefined
             THEN With(a, "lastName", r.lastName) ELSE a
        c == IF r.preferredLanguage # Undefined
             THEN With(b, "preferredLanguage", r.preferredLanguage) ELSE b
    IN With(c, "updatedAt", r.updatedAt)

\* dynamodb.update without a condition: an item that is not there is created
\* from the key and the SET attributes.
DynUpdate(r) ==
    IF ItemByKey(r.userId) = {}
    THEN items \cup {SetAttributes([userId |-> r.userId], r)}
    ELSE {IF u.userId = r.userId THEN SetAttributes(u, r) ELSE u : u \in items}

UpdateProfileUpdate(r) ==
    /\ r \in Invoked("updateProfile", "update")
    /\ items' = DynUpdate(r)
    /\ Respond("updateProfile", 200, [message |-> "Profile updated successfully"],
               Ran(r, "update"))
    /\ Return(r)
    /\ UNCHANGED <<sqlVars, uuidSeq, clock, held>>

\* Time passes for the Lambda handlers.
DynTick ==
    /\ clock + StepHours <= MaxHours
    /\ clock' = clock + StepHours
    /\ Quiet
    /\ UNCHANGED <<sqlVars, items, uuidSeq, lambdas, held>>

\* The wall clock behind CURRENT_TIMESTAMP.
Tick ==
    /\ now < MaxClock
    /\ now' = now + 1
    /\ Quiet
    /\ UNCHANGED <<users, userSeq, tasks, taskSeq, inflight, crashed, dynVars>>

InitDyn ==
    /\ items = {}
    /\ uuidSeq = 0
    /\ clock = 0
    /\ lambdas = EmptyBag
    /\ held = {}

InitSql ==
    /\ users = {}
    /\ userSeq = 0
    /\ tasks = {}
    /\ taskSeq = 0
    /\ now = 0
    /\ inflight = EmptyBag
    /\ crashed = FALSE
    /\ InitDyn
    /\ resp = NoResp

NextAcct ==
    \/ \E in \in RegisterInputs : RegisterStart(in)
    \/ \E r \in BagToSet(inflight) : RegisterSelect(r)
    \/ \E r \in BagToSet(inflight) : RegisterInsert(r)
    \/ \E in \in LoginInputs : LoginStart(in)
    \/ \E r \in BagToSet(inflight) : LoginSelect(r)
    \/ GetUsers
    \/ Tick

\* The account endpoints of the SQLite server.
SpecAcct == InitSql /\ [][NextAcct]_vars

\* The users table the task endpoints run against: empty, or holding the
\* row that a registration of Ann at time 0 leaves behind.
OwnerRow ==
    [id |-> 1, firstName |-> "Ann", lastName |-> "Doe", email |-> "a@x.io",
     passwordHash |-> BcryptHash(PwGood, "s1"), preferredLanguage |-> "en",
     createdAt |-> 0, updatedAt |-> 0]

InitTask ==
    /\ users \in {{}, {OwnerRow}}
    /\ userSeq = Cardinality(users)
    /\ tasks = {}
    /\ taskSeq = 0
    /\ now = 0
    /\ inflight = EmptyBag
    /\ crashed = FALSE
    /\ InitDyn
    /\ resp = NoResp

\* PUT bodies that toggle completion, clear the text or supply nothing.
ToggleInputs ==
    {b \in UpdateInputs : b.has \in {{}, {"completed"}, {"text"}} /\ b.text = NULL}

\* POST bodies that leave priority and dueDate to their defaults.
PlainInputs ==
    {in \in CreateInputs : in.priority = Undefined /\ in.dueDate = Undefined}

NextTask ==
    \/ \E userId \in UserIds : ListTasks(userId)
    \/ \E in \in PlainInputs : CreateTask(in)
    \/ \E r \in BagToSet(inflight) : CreateSelect(r)
    \/ \E taskId \in TaskIds, b \in ToggleInputs : UpdateTask(taskId, b)
    \/ \E r \in BagToSet(inflight) : UpdateSelect(r)
    \/ \E taskId \in TaskIds : DeleteTask(taskId)
    \/ \E userId \in UserIds : GetStats(userId)
    \/ Tick

\* The task endpoints of the SQLite server, over tasks with default fields.
SpecTask == InitTask /\ [][NextTask]_vars

\* The database after Ann has registered and created one task with default
\* priority and no due date, all at time 0.
FirstTask ==
    NewTask(1, [userId |-> 1, text |-> "t1", priority |-> Undefined,
                dueDate |-> Undefined], 0)

InitField ==
    /\ users = {OwnerRow}
    /\ userSeq = 1
    /\ tasks = {FirstTask}
    /\ taskSeq = 1
    /\ now = 0
    /\ inflight = EmptyBag
    /\ crashed = FALSE
    /\ InitDyn
    /\ resp = NoResp

FieldIds == {1, 2}

NextField ==
    \/ \E taskId \in FieldIds, b \in UpdateInputs : UpdateTask(taskId, b)
    \/ \E r \in BagToSet(inflight) : UpdateSelect(r)
    \/ Tick

\* Updates of one task over every combination of the fields of a PUT body.
SpecField == InitField /\ [][NextField]_vars

NextDyn ==
    \/ \E in \in DynRegisterInputs : DynRegisterStart(in)
    \/ \E r \in BagToSet(lambdas) : DynRegisterQuery(r)
    \/ \E r \in BagToSet(lambdas) : DynRegisterPut(r)
    \/ \E in \in DynLoginInputs : DynLoginStart(in)
    \/ \E r \in BagToSet(lambdas) : DynLoginQuery(r)
    \/ \E token \in Bearers : GetProfileStart(token)
    \/ \E r \in BagToSet(lambdas) : GetProfileGet(r)
    \/ \E token \in Bearers, in \in ProfileInputs : UpdateProfileStart(token, in)
    \/ \E r \in BagToSet(lambdas) : UpdateProfileUpdate(r)
    \/ DynTick

\* The Lambda auth handlers over the DynamoDB users table.
SpecDyn == InitSql /\ [][NextDyn]_vars

SqlUntouched ==
    /\ users = {} /\ userSeq = 0 /\ tasks = {} /\ taskSeq = 0 /\ now = 0
    /\ inflight = EmptyBag /\ ~crashed

DynUntouched ==
    /\ items = {} /\ uuidSeq = 0 /\ clock = 0 /\ lambdas = EmptyBag /\ held = {}

NextBackends ==
    \/ DynUntouched /\ NextAcct
    \/ SqlUntouched /\ NextDyn

\* A deployment serves the accounts from one back end: the SQLite server or
\* the Lambda handlers.
SpecBackends == InitSql /\ [][NextBackends]_vars

(* ------------------- profile of a registered user -------------------- *)
\* The item register leaves behind for Ann at hour 0.
AnnItem ==
    [userId |-> 1, email |-> "a@x.io",
     passwordHash |-> BcryptHash(PwGood, "s1"),
     firstName |-> "Ann", lastName |-> "Doe", preferredLanguage |-> "en",
     isVerified |-> FALSE, createdAt |-> 0, updatedAt |-> 0]

InitProfile ==
    /\ users = {} /\ userSeq = 0 /\ tasks = {} /\ taskSeq = 0 /\ now = 0
    /\ inflight = EmptyBag /\ crashed = FALSE
    /\ items = {AnnItem}
    /\ uuidSeq = 1
    /\ clock = 0
    /\ lambdas = EmptyBag
    /\ held = {JwtSign(AnnItem, 0)}
    /\ resp = NoResp

\* PUT bodies of updateProfile over every subset of the three fields.
ProfileBodies ==
    [firstName : {Undefined, "Bob"}, lastName : {Undefined, "Roe"},
     preferredLanguage : {Undefined, "es", "de"}, extra : {"", "email"}]

\* The table is shared with whoever administers it: an item can be gone by
\* the time a token that names it is presented (getProfile's 'User not
\* found' branch is the handlers' own provision for this).
ItemRemoved ==
    /\ \E u \in items : items' = items \ {u}
    /\ Quiet
    /\ UNCHANGED <<sqlVars, uuidSeq, clock, lambdas, held>>

NextProfile ==
    \/ \E token \in Bearers : GetProfileStart(token)
    \/ \E r \in BagToSet(lambdas) : GetProfileGet(r)
    \/ \E token \in Bearers, in \in ProfileBodies : UpdateProfileStart(token, in)
    \/ \E r \in BagToSet(lambdas) : UpdateProfileUpdate(r)
    \/ ItemRemoved
    \/ DynTick

\* The protected profile routes for one registered user holding her token.
SpecProfile == InitProfile /\ [][NextProfile]_vars

(* --------------------------- registration ---------------------------- *)
\* server.js, the mock POST /register: no store, no length check, and the
\* confirmation compared whether or not it was sent.
MockRegister(in) ==
    /\ IF Falsy(in.firstName) \/ Falsy(in.lastName) \/ Falsy(in.email)
          \/ in.password = <<>>
       THEN Respond("POST /register (mock)", 400, Fail(MsgAllRequired), Fresh(in))
       ELSE IF in.password # in.confirmPassword
       THEN Respond("POST /register (mock)", 400, Fail(MsgPwMismatch), Fresh(in))
       ELSE Respond("POST /register (mock)", 200,
                    [success |-> TRUE,
                     message |-> "Registration successful! Please check your email for verification.",
                     user |-> [email |-> in.email, firstName |-> in.firstName,
                               lastName |-> in.lastName, uid |-> Uid(now),
                               preferredLanguage |->
                                   UserLanguage(in.selectedLanguage, "")]],
                    Fresh(in))
    /\ UNCHANGED <<sqlVars, dynVars>>

NextRegister ==
    \/ DynUntouched /\ \E in \in RegisterInputs : RegisterStart(in)
    \/ DynUntouched /\ \E r \in BagToSet(inflight) : RegisterSelect(r)
    \/ DynUntouched /\ \E r \in BagToSet(inflight) : RegisterInsert(r)
    \/ SqlUntouched /\ \E in \in DynRegisterInputs : DynRegisterStart(in)
    \/ SqlUntouched /\ \E r \in BagToSet(lambdas) : DynRegisterQuery(r)
    \/ SqlUntouched /\ \E r \in BagToSet(lambdas) : DynRegisterPut(r)
    \/ SqlUntouched /\ DynUntouched /\ \E in \in RegisterInputs : MockRegister(in)

\* Registration alone, on each of the three servers that offer it.
SpecRegister == InitSql /\ [][NextRegister]_vars

(* --------------------------- task creation --------------------------- *)
\* PUT bodies that supply completed alone.
CompletedInputs == {b \in ToggleInputs : b.has = {"completed"}}

\* POST bodies of the registered user, and bodies without a userId.
OwnerInputs == {in \in CreateInputs : in.userId \in {0, OwnerRow.id}}

NextCreate ==
    \/ \E in \in OwnerInputs : CreateTask(in)
    \/ \E r \in BagToSet(inflight) : CreateSelect(r)
    \/ \E taskId \in TaskIds, b \in CompletedInputs : UpdateTask(taskId, b)
    \/ \E r \in BagToSet(inflight) : UpdateSelect(r)
    \/ \E taskId \in TaskIds : DeleteTask(taskId)
    \/ Tick

\* POST /tasks over every combination of its optional fields, next to the
\* requests that can change or remove the row it created.
SpecCreate == InitTask /\ [][NextCreate]_vars

(* -------------------------- storage failures -------------------------- *)
\* err.message of a statement the store could not run.
StorageErrors == {"SQLITE_BUSY: database is locked", "SQLITE_IOERR: disk I/O error"}

\* The body each handler of the SQLite server sends from the error branch of
\* the callback (or the catch block) of the statement at pc.
FailureBody(ep, pc, err) ==
    IF ep = "GET /users" THEN [error |-> err]
    ELSE IF ep \in {"POST /register", "POST /login"} THEN Fail(MsgInternal)
    ELSE IF ep = "GET /tasks/:userId" THEN [error |-> "Failed to fetch tasks"]
    ELSE IF ep = "POST /tasks" /\ pc = "first" THEN Fail("Failed to create task")
    ELSE IF ep = "POST /tasks" THEN Fail("Task created but failed to retrieve")
    ELSE IF ep = "PUT /tasks/:taskId" /\ pc = "first" THEN Fail("Failed to update task")
    ELSE IF ep = "PUT /tasks/:taskId" THEN Fail("Task updated but failed to retrieve")
    ELSE IF ep = "DELETE /tasks/:taskId" THEN Fail("Failed to delete task")
    ELSE [error |-> "Failed to fetch stats"]

\* The handlers whose first statement is issued as the request arrives.
SingleStatement ==
    {"GET /users", "GET /tasks/:userId", "POST /tasks", "PUT /tasks/:taskId",
     "DELETE /tasks/:taskId", "GET /tasks/:userId/stats"}

\* The first statement of a request fails: nothing is stored.
FirstStatementFailed(ep, err) ==
    /\ ~crashed
    /\ Respond(ep, 500, FailureBody(ep, "first", err),
               [ops |-> <<"failed">>, err |-> err])
    /\ UNCHANGED <<sqlVars, dynVars>>

\* The statement a request of the SQLite server is waiting for fails.
StatementFailed(r, err) ==
    /\ ~crashed
    /\ r \in BagToSet(inflight)
    /\ Respond(r.ep, 500, FailureBody(r.ep, r.pc, err),
               [ops |-> Append(r.ops, "failed"), err |-> err])
    /\ Release(r)
    /\ UNCHANGED <<users, userSeq, tasks, taskSeq, now, crashed, dynVars>>

\* The DynamoDB call an invocation awaits is rejected: the catch block of
\* the handler answers (error.name is not 'JsonWebTokenError').
DynStatementFailed(r, err) ==
    /\ r \in BagToSet(lambdas)
    /\ Respond(r.ep, 500, Err("Internal server error"),
               [ops |-> Append(r.ops, "failed"), err |-> err])
    /\ Return(r)
    /\ UNCHANGED <<sqlVars, items, uuidSeq, clock, held>>

\* The SQLite server has served nothing since it came up with Ann and her
\* first task.
FaultUntouched ==
    /\ users = {OwnerRow} /\ userSeq = 1 /\ tasks = {FirstTask} /\ taskSeq = 1
    /\ now = 0 /\ inflight = EmptyBag /\ ~crashed

NextFault ==
    \/ DynUntouched /\ RegisterStart([John EXCEPT !.email = "b@x.io"])
    \/ DynUntouched /\ \E r \in BagToSet(inflight) : RegisterSelect(r)
    \/ DynUntouched /\ \E r \in BagToSet(inflight) : RegisterInsert(r)
    \/ DynUntouched /\ LoginStart([email |-> "a@x.io", password |-> PwGood])
    \/ DynUntouched /\ \E r \in BagToSet(inflight) : LoginSelect(r)
    \/ DynUntouched /\ \E in \in PlainInputs : CreateTask(in)
    \/ DynUntouched /\ \E r \in BagToSet(inflight) : CreateSelect(r)
    \/ DynUntouched /\ \E b \in CompletedInputs : UpdateTask(FirstTask.id, b)
    \/ DynUntouched /\ \E r \in BagToSet(inflight) : UpdateSelect(r)
    \/ DynUntouched /\ GetUsers
    \/ DynUntouched /\ \E ep \in SingleStatement, err \in StorageErrors :
                          FirstStatementFailed(ep, err)
    \/ DynUntouched /\ \E r \in BagToSet(inflight), err \in StorageErrors :
                          StatementFailed(r, err)
    \/ FaultUntouched /\ DynRegisterStart(Jane)
    \/ FaultUntouched /\ \E r \in BagToSet(lambdas) : DynRegisterQuery(r)
    \/ FaultUntouched /\ \E r \in BagToSet(lambdas) : DynRegisterPut(r)
    \/ FaultUntouched /\ DynLoginStart([email |-> "a@x.io", password |-> PwGood])
    \/ FaultUntouched /\ \E r \in BagToSet(lambdas) : DynLoginQuery(r)
    \/ FaultUntouched /\ \E token \in held : GetProfileStart(token)
    \/ FaultUntouched /\ \E r \in BagToSet(lambdas) : GetProfileGet(r)
    \/ FaultUntouched /\ \E token \in held, in \in ProfileInputs :
                            UpdateProfileStart(token, in)
    \/ FaultUntouched /\ \E r \in BagToSet(lambdas) : UpdateProfileUpdate(r)
    \/ FaultUntouched /\ \E r \in BagToSet(lambdas), err \in StorageErrors :
                            DynStatementFailed(r, err)

\* Both back ends over a store whose statements can fail.
SpecFault == InitField /\ [][NextFault]_vars

(* ------------------------ every write to a user ---------------------- *)
\* One body per outcome of each request that reads or writes a user.
IdentityRegisters == {John, [John EXCEPT !.email = ""]}
IdentityLogins == {[email |-> "a@x.io", password |-> pw] : pw \in {PwGood, PwOther}}
IdentityTask == [userId |-> 1, text |-> "t1", priority |-> Undefined, dueDate |-> Undefined]
DynIdentityRegisters == {Jane, [Jane EXCEPT !.email = ""]}

NextIdentity ==
    \/ DynUntouched /\ \E in \in IdentityRegisters : RegisterStart(in)
    \/ DynUntouched /\ \E r \in BagToSet(inflight) : RegisterSelect(r)
    \/ DynUntouched /\ \E r \in BagToSet(inflight) : RegisterInsert(r)
    \/ DynUntouched /\ \E in \in IdentityLogins : LoginStart(in)
    \/ DynUntouched /\ \E r \in BagToSet(inflight) : LoginSelect(r)
    \/ DynUntouched /\ GetUsers
    \/ DynUntouched /\ ListTasks(1)
    \/ DynUntouched /\ CreateTask(IdentityTask)
    \/ DynUntouched /\ \E r \in BagToSet(inflight) : CreateSelect(r)
    \/ DynUntouched /\ \E b \in CompletedInputs : UpdateTask(1, b)
    \/ DynUntouched /\ \E r \in BagToSet(inflight) : UpdateSelect(r)
    \/ DynUntouched /\ DeleteTask(1)
    \/ DynUntouched /\ GetStats(1)
    \/ SqlUntouched /\ \E in \in DynIdentityRegisters : DynRegisterStart(in)
    \/ SqlUntouched /\ \E r \in BagToSet(lambdas) : DynRegisterQuery(r)
    \/ SqlUntouched /\ \E r \in BagToSet(lambdas) : DynRegisterPut(r)
    \/ SqlUntouched /\ \E in \in IdentityLogins : DynLoginStart(in)
    \/ SqlUntouched /\ \E r \in BagToSet(lambdas) : DynLoginQuery(r)
    \/ SqlUntouched /\ \E token \in held : GetProfileStart(token)
    \/ SqlUntouched /\ \E r \in BagToSet(lambdas) : GetProfileGet(r)
    \/ SqlUntouched /\ \E token \in held, in \in ProfileInputs :
                          UpdateProfileStart(token, in)
    \/ SqlUntouched /\ \E r \in BagToSet(lambdas) : UpdateProfileUpdate(r)
    \/ SqlUntouched /\ DynTick

\* Every operation of both back ends that reads or writes a user, next to
\* the task operations.
SpecIdentity == InitSql /\ [][NextIdentity]_vars

(* =============================== claims =============================== *)
\* The accounts of both stores, as a login sees them.
Accounts ==
    {[email |-> u.email, passwordHash |-> u.passwordHash] : u \in users}
      \cup {[email |-> u.email, passwordHash |-> u.passwordHash] : u \in items}

IsRegister == resp.ep \in {"POST /register", "register"}
IsLogin == resp.ep \in {"POST /login", "login"}

\* C1: in every reachable state of either user store no two stored user
\* records have the same email.
C1_EmailUnique ==
    /\ \A u, v \in users : u.email = v.email => u = v
    /\ \A u, v \in items : u.email = v.email => u = v

\* C2: a valid Register that starts after a successful Register for the same
\* email has completed is answered 400 with the duplicate-email message and
\* has run no write against the store.
C2_SecondRegisterConflict ==
    (IsRegister /\ "known" \in DOMAIN resp.req /\ resp.req.known) =>
        /\ resp.status = 400
        /\ resp.body.error \in {MsgDuplicate, "User with this email already exists"}
        /\ \A i \in DOMAIN resp.req.ops : resp.req.ops[i] \notin {"INSERT", "put"}

C2_Witness ==
    /\ resp.ep = "POST /register" /\ "known" \in DOMAIN resp.req
    /\ resp.req.known /\ resp.status = 400 /\ resp.req.ops = <<"SELECT">>

\* C3: for every user registered with email E and password P, a Login with E
\* succeeds when it brings P and fails with 401 when it brings another
\* non-empty password.
C3_PasswordRoundTrip ==
    (IsLogin /\ resp.status \in {200, 401}) =>
        \A a \in Accounts :
            a.email = resp.req.email =>
                (resp.status = 200 <=> BcryptCompare(resp.req.password, a.passwordHash))

PublicUserFields ==
    {"id", "userId", "uid", "firstName", "lastName", "email",
     "preferredLanguage", "isVerified", "createdAt", "updatedAt"}
TokenFields == {"userId", "email", "firstName", "lastName", "iat", "exp", "sig"}

\* C4: no response body of Register, Login, GetProfile, UpdateProfile or
\* GET /users carries a password hash or a plaintext password: a user in a
\* body has public fields only, and so has the token.
C4_NoSecretInResponse ==
    /\ DOMAIN resp.body \subseteq
          {"success", "message", "error", "user", "users", "token"}
    /\ "user" \in DOMAIN resp.body =>
          DOMAIN resp.body.user \subseteq PublicUserFields
    /\ "users" \in DOMAIN resp.body =>
          \A u \in resp.body.users : DOMAIN u \subseteq PublicUserFields
    /\ "token" \in DOMAIN resp.body =>
          DOMAIN resp.body.token \subseteq TokenFields

C4_Witness ==
    /\ resp.ep = "POST /login" /\ resp.status = 200
    /\ \E u \in users : u.id = resp.body.user.id /\ "passwordHash" \in DOMAIN u

\* No account of the email matches the password: nobody has the email, or
\* whoever has it has another password.
LoginMustFail ==
    \A a \in Accounts :
        a.email = resp.req.email => ~BcryptCompare(resp.req.password, a.passwordHash)

UniformFailure ==
    /\ resp.status = 401
    /\ resp.body = IF resp.ep = "login" THEN Err("Invalid email or password")
                   ELSE Fail(MsgInvalidLogin)

\* C5 as stated: for any non-empty email and password, a Login that finds no
\* user and a Login that finds the user but not the password are both
\* answered 401 'Invalid email or password'.
C5_AnyNonEmptyEmail ==
    (IsLogin /\ resp.req.email # "" /\ resp.req.password # <<>> /\ LoginMustFail)
        => UniformFailure

\* C5 as amended: for any email and password that pass the endpoint's input
\* validation (non-empty, and in the Lambda handler a well-formed email), a
\* Login that finds no user and a Login that finds the user but not the
\* password are both answered 401 'Invalid email or password'.
C5_UniformLoginFailure ==
    (/\ IsLogin /\ resp.req.email # "" /\ resp.req.password # <<>>
     /\ resp.ep = "login" => resp.req.email \in WellFormed
     /\ LoginMustFail)
        => UniformFailure

C5_Witness ==
    /\ IsLogin /\ resp.status = 401
    /\ \E a \in Accounts : a.email = resp.req.email

\* C6: GetProfile and UpdateProfile answer 401, without a statement against
\* the store, whenever the bearer token is missing, invalid or expired.
C6_BadTokenRejected ==
    (/\ resp.ep \in {"getProfile", "updateProfile"}
     /\ \/ resp.req.token = NoToken
        \/ JwtVerify(resp.req.token, resp.req.at) # "ok")
        => resp.status = 401 /\ resp.req.ops = <<>>

\* C7: GetStats returns numbers with total = completed + remaining, and
\* 0, 0, 0 for an owner without tasks.
C7_StatsAddUp ==
    resp.ep = "GET /tasks/:userId/stats" =>
        LET st == resp.body.stats IN
        /\ Len(st.total) = 1 /\ Len(st.completed) = 1 /\ Len(st.remaining) = 1
        /\ st.total[1] = st.completed[1] + st.remaining[1]
        /\ TasksOf(resp.req.userId) = {} =>
              st = [total |-> SqlInt(0), completed |-> SqlInt(0),
                    remaining |-> SqlInt(0)]

\* The row after the update holds the supplied fields of b and is the row
\* before it in every other field but updatedAt, which is the current time.
FieldsApplied(row, row2, b) ==
    /\ row2.id = row.id /\ row2.userId = row.userId
    /\ row2.createdAt = row.createdAt
    /\ row2.completed = IF "completed" \in b.has
                        THEN (IF b.completed THEN 1 ELSE 0) ELSE row.completed
    /\ row2.text = IF "text" \in b.has THEN b.text ELSE row.text
    /\ row2.priority = IF "priority" \in b.has THEN b.priority ELSE row.priority
    /\ row2.dueDate = IF "dueDate" \in b.has THEN b.dueDate ELSE row.dueDate
    /\ row2.updatedAt = now

PartialUpdate(taskId, b) ==
    \A row \in TaskById(taskId) :
        \E row2 \in tasks' :
            /\ FieldsApplied(row, row2, b)
            /\ tasks' \ {row2} = tasks \ {row}

\* C8 as stated: an UpdateTask of an existing task with any subset of
\* {completed, text, priority, dueDate} leaves exactly the supplied fields
\* with the supplied values, refreshes updatedAt and changes nothing else.
C8_AnySubset ==
    [][\A taskId \in FieldIds, b \in UpdateInputs :
          (TaskById(taskId) # {} /\ UpdateTask(taskId, b))
              => PartialUpdate(taskId, b)]_vars

\* C8 as amended: the same for every subset whose text, when supplied, is
\* not null.
C8_PartialUpdate ==
    [][\A taskId \in FieldIds, b \in UpdateInputs :
          (/\ TaskById(taskId) # {}
           /\ "text" \in b.has => b.text # NULL
           /\ UpdateTask(taskId, b))
              => PartialUpdate(taskId, b)]_vars

C8_Witness ==
    \E t \in tasks :
        /\ t.completed = 1 /\ t.text = "t1" /\ t.priority = "medium"
        /\ t.dueDate = NULL /\ t.updatedAt > t.createdAt

\* C9: DeleteTask and UpdateTask of an identifier without a row answer 404
\* 'Task not found' and leave the rows as they are; DeleteTask of an
\* identifier with a row removes that row and no other.
C9_NotFoundAndDelete ==
    [][/\ resp'.ep = "DELETE /tasks/:taskId" =>
             IF TaskById(resp'.req.taskId) = {}
             THEN /\ resp'.status = 404 /\ resp'.body.error = "Task not found"
                  /\ tasks' = tasks
             ELSE /\ resp'.status = 200
                  /\ tasks' = {t \in tasks : t.id # resp'.req.taskId}
       /\ (/\ resp'.ep = "PUT /tasks/:taskId"
           /\ resp'.req.ops = <<"UPDATE">>
           /\ TaskById(resp'.req.taskId) = {}) =>
             /\ resp'.status = 404 /\ resp'.body.error = "Task not found"
             /\ tasks' = tasks]_vars

C9_Witness ==
    /\ resp.ep = "DELETE /tasks/:taskId" /\ resp.status = 200
    /\ tasks # {} /\ TaskById(resp.req.taskId) = {}

\* C10: in every reachable state the userId of every stored task is the
\* identifier of a stored user.
C10_TaskOwnerExists ==
    \A t \in tasks : \E u \in users : u.id = t.userId

\* The fields of a PUT body of updateProfile that were sent.
Supplied(q) ==
    {f \in {"firstName", "lastName", "preferredLanguage"} : q[f] # Undefined}

\* C11: an updateProfile that reaches the store with a token whose userId is
\* not in the table answers 404 and leaves the table as it is; when the item
\* is there, exactly the supplied fields take the supplied values, updatedAt
\* is refreshed and every other attribute and every other item is unchanged.
C11_UpdateProfile ==
    [][(resp'.ep = "updateProfile" /\ resp'.req.ops = <<"update">>) =>
         LET q == resp'.req IN
         IF ItemByKey(q.userId) = {}
         THEN resp'.status = 404 /\ items' = items
         ELSE /\ resp'.status = 200
              /\ \E u \in ItemByKey(q.userId) :
                   items' = (items \ {u}) \cup
                     {[f \in DOMAIN u |->
                         IF f = "updatedAt" THEN q.updatedAt
                         ELSE IF f \in Supplied(q) THEN q[f] ELSE u[f]]}]_vars

\* C11 without its first half: the partial update of an item that exists.
C11_ExistingUserPartialUpdate ==
    [][(resp'.ep = "updateProfile" /\ resp'.req.ops = <<"update">>
          /\ ItemByKey(resp'.req.userId) # {}) =>
         LET q == resp'.req IN
         /\ resp'.status = 200
         /\ \E u \in ItemByKey(q.userId) :
              items' = (items \ {u}) \cup
                {[f \in DOMAIN u \cup Supplied(q) |->
                    IF f = "updatedAt" THEN q.updatedAt
                    ELSE IF f \in Supplied(q) THEN q[f] ELSE u[f]]}]_vars

\* The bodies the specification of Register rejects.
RequiredAbsent(in) ==
    in.firstName = "" \/ in.lastName = "" \/ in.email = "" \/ in.password = <<>>

MustBeRejected(in) ==
    \/ RequiredAbsent(in)
    \/ in.confirmPassword # <<>> /\ in.confirmPassword # in.password
    \/ Len(in.password) < MinPasswordLength

\* The number of characters a too-short-password message asks for, 0 for
\* any other message.
NamedMinimum(msg) ==
    IF msg = "Password must be at least 10 characters long" THEN 10
    ELSE IF msg = "Password must be at least 6 characters long" THEN 6
    ELSE IF msg = "\"password\" length must be at least 6 characters long" THEN 6
    ELSE 0

\* What C12 asks of the step that received the body.
ValidationVerdict(in) ==
    /\ (resp'.status = 400) <=> MustBeRejected(in)
    /\ (resp'.status = 400 /\ NamedMinimum(resp'.body.error) # 0)
          => NamedMinimum(resp'.body.error) = MinPasswordLength

\* C12: on every server Register answers 400 from its validation exactly
\* when a required field is absent, a supplied confirmPassword differs from
\* the password, or the password is shorter than the minimum; a body without
\* confirmPassword that is otherwise valid passes; and the minimum a message
\* names is the minimum enforced.
C12_RegisterValidation ==
    [][/\ \A in \in RegisterInputs :
            (RegisterStart(in) \/ MockRegister(in)) => ValidationVerdict(in)
       /\ \A in \in DynRegisterInputs :
            DynRegisterStart(in) => ValidationVerdict(in)]_vars

\* C12 for the validation of the SQLite server, without the clause on the
\* message.
C12_SqliteRejectsExactly ==
    [][\A in \in RegisterInputs :
          RegisterStart(in) => ((resp'.status = 400) <=> MustBeRejected(in))]_vars

\* A success body that carries the user without its hash and a token signed
\* now for that user, good for TokenHours.
IssuesToken(body) ==
    /\ "passwordHash" \notin DOMAIN body.user
    /\ "token" \in DOMAIN body
    /\ body.token.sig = "JWT_SECRET"
    /\ body.token.userId = body.user.userId
    /\ body.token.email = body.user.email
    /\ body.token.firstName = body.user.firstName
    /\ body.token.lastName = body.user.lastName
    /\ body.token.iat = clock
    /\ \A t \in 0..(MaxHours + TokenHours) :
          (JwtVerify(body.token, t) = "ok") <=> (t < clock + TokenHours)

\* A getProfile that got as far as the store with a token the handlers
\* issued answers with the profile of the user the token names.
ProfileOfBearer ==
    (resp.ep = "getProfile" /\ resp.req.ops = <<"get">>) =>
        /\ resp.status = 200
        /\ resp.body.user.userId = resp.req.token.userId
        /\ resp.body.user.email = resp.req.token.email
        /\ "passwordHash" \notin DOMAIN resp.body.user

\* C13: every successful Register answers 201 with the user (no hash) and a
\* token for that user valid for 24 hours, every successful Login answers
\* with a fresh token, and either token presented to GetProfile inside its
\* window returns that user's profile.
C13_RegisterLoginTokens ==
    /\ (IsRegister /\ resp.status \in {200, 201}) =>
           resp.status = 201 /\ IssuesToken(resp.body)
    /\ (IsLogin /\ resp.status \in {200, 201}) => IssuesToken(resp.body)
    /\ ProfileOfBearer

\* C13 for the Lambda handlers alone.
C13_LambdaTokens ==
    /\ (resp.ep = "register" /\ resp.status \in {200, 201}) =>
           resp.status = 201 /\ IssuesToken(resp.body)
    /\ (resp.ep = "login" /\ resp.status \in {200, 201}) => IssuesToken(resp.body)
    /\ ProfileOfBearer

\* C14: the existence check of Register looks at the stored users only, so
\* it is not atomic with the insert: a registration whose lookup finds no
\* stored user with its email passes the check whatever other registrations
\* of that email are waiting to insert, in both stores.
C14_CheckIgnoresPendingInsert ==
    [][/\ \A r \in Waiting("POST /register", "select") :
            (CopiesIn(r, inflight') < CopiesIn(r, inflight)
               /\ UsersByEmail(r.email) = {}) => resp' = NoResp
       /\ \A r \in Invoked("register", "query") :
            (CopiesIn(r, lambdas') < CopiesIn(r, lambdas)
               /\ ItemsByEmail(r.email) = {}) => resp' = NoResp]_vars

\* Two registrations of one email have both passed the check of the SQLite
\* server and neither has inserted.
C14_Witness ==
    \E r \in Waiting("POST /register", "insert") :
        /\ UsersByEmail(r.email) = {}
        /\ \/ CopiesIn(r, inflight) = 2
           \/ \E r2 \in Waiting("POST /register", "insert") :
                 r2 # r /\ r2.email = r.email

\* The same on the Lambda handlers: both have queried, neither has put.
C14_LambdaRace ==
    \E r \in Invoked("register", "put") :
        /\ ItemsByEmail(r.user.email) = {}
        /\ \E r2 \in Invoked("register", "put") :
              r2 # r /\ r2.user.email = r.user.email

\* The response of GET /tasks/:userId holds every task of the owner once,
\* as stored, and no other task.
ListsTheOwnersTasks ==
    LET ts == resp.body.tasks
        owned == TasksOf(resp.req.userId)
    IN /\ Len(ts) = Cardinality(owned)
       /\ {ts[i] : i \in 1..Len(ts)} = {TaskJson(t) : t \in owned}

\* C15: ListTasks(userId) returns exactly the tasks of userId, the task
\* created later before the task created earlier (AUTOINCREMENT ids grow in
\* creation order), also for tasks created in the same tick of the clock,
\* and the empty list when the owner has none.
C15_ListNewestFirst ==
    resp.ep = "GET /tasks/:userId" =>
        /\ resp.status = 200
        /\ ListsTheOwnersTasks
        /\ \A i, j \in 1..Len(resp.body.tasks) :
              i < j => resp.body.tasks[i].id > resp.body.tasks[j].id

\* C15 with the order taken between tasks of different timestamps only.
C15_ListByTimestamp ==
    resp.ep = "GET /tasks/:userId" =>
        /\ resp.status = 200
        /\ ListsTheOwnersTasks
        /\ \A i, j \in 1..Len(resp.body.tasks) :
              i < j => resp.body.tasks[i].createdAt >= resp.body.tasks[j].createdAt

\* What C16 asks of the step that received the body: nothing stored and 400
\* without userId or text, otherwise exactly one more row, with the next id,
\* not completed, the supplied or default priority and the supplied or no
\* dueDate.
CreateVerdict(in) ==
    IF in.userId = 0 \/ in.text = ""
    THEN /\ resp'.status = 400
         /\ tasks' = tasks
    ELSE /\ Cardinality(tasks' \ tasks) = 1
         /\ tasks \subseteq tasks'
         /\ \A t \in tasks' \ tasks :
               /\ t.id \notin {u.id : u \in tasks}
               /\ t.userId = in.userId /\ t.text = in.text
               /\ t.completed = 0
               /\ t.priority = (IF in.priority = Undefined THEN "medium"
                                ELSE in.priority)
               /\ t.dueDate = (IF in.dueDate = Undefined THEN NULL
                               ELSE in.dueDate)

\* The answer to a POST /tasks that stored a row is that row as created.
ReturnsCreatedRow ==
    (resp'.ep = "POST /tasks" /\ resp'.req.ops # <<>>) =>
        /\ resp'.status = 200
        /\ resp'.body.task.id = resp'.req.taskId
        /\ resp'.body.task.completed = FALSE
        /\ resp'.body.task.updatedAt = resp'.body.task.createdAt

\* C16: CreateTask answers 400 and stores nothing when userId or text is
\* absent; otherwise it stores exactly one new task, not completed, with
\* the supplied priority or 'medium' and the supplied dueDate or none, and
\* returns that created row.
C16_CreateTask ==
    [][/\ \A in \in CreateInputs : CreateTask(in) => CreateVerdict(in)
       /\ resp'.ep = "POST /tasks" => resp'.status \in {200, 400}
       /\ ReturnsCreatedRow]_vars

\* C16 up to the row being stored.
C16_StoresOneTask ==
    [][\A in \in CreateInputs : CreateTask(in) => CreateVerdict(in)]_vars

\* The messages the handlers choose for their 500 responses.
GenericMessages ==
    {MsgInternal, "Internal server error", "Failed to fetch tasks",
     "Failed to create task", "Task created but failed to retrieve",
     "Failed to update task", "Task updated but failed to retrieve",
     "Failed to delete task", "Failed to fetch stats"}

\* C17: a response to a request whose storage operation failed has status
\* 500 and a fixed message of the handler, and no response body carries the
\* text of a storage error.
C17_GenericFailure ==
    /\ "err" \in DOMAIN resp.req =>
          /\ resp.status = 500
          /\ resp.body.error \in GenericMessages
    /\ "error" \in DOMAIN resp.body => resp.body.error \notin StorageErrors

\* C17 for every endpoint but GET /users.
C17_GenericFailureButUsers ==
    resp.ep # "GET /users" => C17_GenericFailure

\* C18: on the SQLite server a Register that passed validation is answered
\* with success or with the duplicate-email 400, never with 500, and of the
\* registrations of one email only one succeeds (one row per email).
C18_RaceLoserGets400 ==
    /\ (resp.ep = "POST /register" /\ resp.req.ops # <<>>) =>
          \/ resp.status = 200
          \/ resp.status = 400 /\ resp.body.error = MsgDuplicate
    /\ \A u, v \in users : u.email = v.email => u = v

\* C18 with the loser of the race answered 500 'Internal server error'.
C18_RaceLoserGets400Or500 ==
    /\ (resp.ep = "POST /register" /\ resp.req.ops # <<>>) =>
          \/ resp.status = 200
          \/ resp.status = 400 /\ resp.body.error = MsgDuplicate
          \/ /\ resp.status = 500 /\ resp.body.error = MsgInternal
             /\ resp.req.ops = <<"SELECT", "INSERT">>
             /\ ~resp.req.known
    /\ \A u, v \in users : u.email = v.email => u = v

\* The step takes request r of POST /tasks or PUT /tasks/:taskId off the
\* server's hands.
Ends(r) ==
    /\ r.ep \in {"POST /tasks", "PUT /tasks/:taskId"}
    /\ CopiesIn(r, inflight') < CopiesIn(r, inflight)

\* The step answers r, once.
Answers(r) ==
    /\ resp'.ep = r.ep
    /\ resp'.status # 0
    /\ resp'.req.taskId = r.taskId
    /\ CopiesIn(r, inflight') = CopiesIn(r, inflight) - 1

\* C19: every CreateTask and UpdateTask request ends with one response in
\* every interleaving with other task requests, also when a DeleteTask of
\* the same id ran between the handler's first statement and its SELECT.
C19_AlwaysAnswered ==
    [][\A r \in BagToSet(inflight) : Ends(r) => Answers(r)]_vars

\* C19 for the requests whose row is still there when they read it back.
C19_AnsweredUnlessDeleted ==
    [][\A r \in BagToSet(inflight) :
          (Ends(r) /\ ~crashed') => Answers(r)]_vars

\* PUT bodies of updateProfile with a key the schema does not list.
UnknownField == {in \in ProfileInputs : in.extra # ""}

\* The step keeps every stored user, with the identifier, email and
\* password hash it had.
IdentityKept ==
    /\ \A u \in users : \E v \in users' :
          v.id = u.id /\ v.email = u.email /\ v.passwordHash = u.passwordHash
    /\ \A u \in items :
          /\ \E v \in items' : v.userId = u.userId
          /\ \A v \in items' : v.userId = u.userId =>
                v.email = u.email /\ v.passwordHash = u.passwordHash

\* C20: no step of any operation changes the identifier, email or password
\* hash of a stored user, and an updateProfile with a valid token and a
\* field other than firstName, lastName and preferredLanguage is answered
\* 400 without a call to the store.
C20_IdentityImmutable ==
    [][/\ IdentityKept
       /\ \A token \in held, in \in UnknownField :
            (UpdateProfileStart(token, in) /\ JwtVerify(token, clock) = "ok") =>
                /\ resp'.status = 400
                /\ resp'.req.ops = <<>>
                /\ items' = items /\ lambdas' = lambdas]_vars

\* An updateProfile that tried to set email was turned down after a user
\* had changed her first name.
C20_Witness ==
    /\ resp.ep = "updateProfile" /\ resp.status = 400
    /\ resp.body.error = "\"email\" is not allowed"
    /\ \E u \in items : u.firstName = "Bob" /\ u.email = "a@x.io"

====
